---- MODULE Spec2Model ----
(***************************************************************************)
(* A model of db/dbformat.cc: the internal-key comparator and the write    *)
(* batch (single-version WriteBatch and multi-version WriteBatchMV) with   *)
(* its replay into a memtable.                                             *)
(*                                                                         *)
(* Bytes are numbers 0..255 and buffers are sequences of bytes.  A 64-bit  *)
(* unsigned number is an 8-tuple of base-256 digits, most significant      *)
(* digit first; its fixed64 encoding is the little-endian byte string.     *)
(***************************************************************************)
EXTENDS Integers, Sequences, FiniteSets, TLC

VARIABLES
  mv,             \* TRUE: the batches are WriteBatchMV objects, FALSE: WriteBatch
  rep,            \* rep[w]: the byte buffer rep_ of batch w
  hist,           \* history: the calls that built rep[w] since its last Clear
  ret,            \* the last operation and what it returned
  multi_version,  \* InternalKeyComparator::multi_version
  akey, bkey,     \* the internal keys given to the comparator
  r,              \* the comparator or filter-policy call made and its result
  keys,           \* the caller's array of Slices given to CreateFilter
  filter,         \* the filter the user policy built
  lkey            \* the LookupKey / MVLookupKey object constructed

vars == <<mv, rep, hist, ret, multi_version, akey, bkey, r, keys, filter, lkey>>
batchVars == <<mv, rep, hist, ret>>
cmpVars == <<multi_version, akey, bkey, r>>
keyVars == <<keys, filter, lkey>>

----------------------------------------------------------------------------
(* Bounds of the model *)

\* records held by the two batches together
MaxRecs == 3
\* byte tokens of a raw payload installed with SetContents
MaxRaw == 4
\* largest header count of raw contents
MaxCount == 2

----------------------------------------------------------------------------
(* Program constants *)

kHeader == 12
kTypeDeletion == 0
kTypeValue == 1
kValueTypeForSeek == kTypeValue
\* sizeof(space_), the inline buffer of LookupKey and MVLookupKey
kSpaceSize == 200

----------------------------------------------------------------------------
(* 64-bit unsigned numbers: <<d7, ..., d0>>, most significant digit first *)

U64Zero == <<0, 0, 0, 0, 0, 0, 0, 0>>

\* the number n < 2^31 as a 64-bit unsigned number
U64Of(n) ==
  <<0, 0, 0, 0, (n \div 16777216) % 256, (n \div 65536) % 256,
    (n \div 256) % 256, n % 256>>

\* x + 1 modulo 2^64
Inc64(x) ==
  IF \A i \in 1..8 : x[i] = 255 THEN U64Zero
  ELSE LET j == CHOOSE i \in 1..8 :
                  /\ x[i] # 255
                  /\ \A k \in (i + 1)..8 : x[k] = 255
       IN  [i \in 1..8 |-> IF i < j THEN x[i]
                           ELSE IF i = j THEN x[i] + 1 ELSE 0]

\* x + n modulo 2^64
RECURSIVE Add64(_, _)
Add64(x, n) == IF n = 0 THEN x ELSE Add64(Inc64(x), n - 1)

\* a < b as unsigned numbers
Less64(a, b) ==
  \E i \in 1..8 : /\ a[i] < b[i]
                  /\ \A k \in 1..(i - 1) : a[k] = b[k]

kMaxSequenceNumber == <<0, 255, 255, 255, 255, 255, 255, 255>>
kMinValidTime == U64Zero

----------------------------------------------------------------------------
(* util/coding: fixed-width and varint codecs *)

Reverse(s) == [i \in 1..Len(s) |-> s[Len(s) + 1 - i]]

\* the 8 little-endian bytes of a 64-bit number
EncodeFixed64(x) == Reverse(x)

\* the 64-bit number held by the 8 bytes starting at offset off (0-based)
DecodeFixed64(buf, off) == Reverse(SubSeq(buf, off + 1, off + 8))

\* the 4 little-endian bytes of (uint32_t) n, for an int n
EncodeFixed32(n) ==
  <<n % 256, (n \div 256) % 256, (n \div 65536) % 256,
    (n \div 16777216) % 256>>

\* the 4 bytes at offset off, decoded as uint32_t and converted to int
DecodeFixed32(buf, off) ==
  LET b3 == buf[off + 4]
  IN  buf[off + 1] + 256 * buf[off + 2] + 65536 * buf[off + 3]
        + 16777216 * (IF b3 >= 128 THEN b3 - 256 ELSE b3)

\* PutVarint32: 7 bits per byte, least significant group first
RECURSIVE EncodeVarint32(_)
EncodeVarint32(v) ==
  IF v < 128 THEN <<v>>
  ELSE <<(v % 128) + 128>> \o EncodeVarint32(v \div 128)

\* EncodeVarint32(dst, v) of the uint32_t v that a 64-bit x converts to: the
\* low 32 bits of x in 7-bit groups, least significant group first
EncodeVarint32Of(x) ==
  LET g0 == x[8] % 128
      g1 == (x[8] \div 128) + 2 * (x[7] % 64)
      g2 == (x[7] \div 64) + 4 * (x[6] % 32)
      g3 == (x[6] \div 32) + 8 * (x[5] % 16)
      g4 == x[5] \div 16
  IN  IF g4 > 0 THEN <<g0 + 128, g1 + 128, g2 + 128, g3 + 128, g4>>
      ELSE IF g3 > 0 THEN <<g0 + 128, g1 + 128, g2 + 128, g3>>
      ELSE IF g2 > 0 THEN <<g0 + 128, g1 + 128, g2>>
      ELSE IF g1 > 0 THEN <<g0 + 128, g1>>
      ELSE <<g0>>

\* GetVarint32: at most 5 bytes, 7 bits each, into a uint32_t.  The fifth
\* byte keeps only its low 4 bits.  A value >= 2^31 is reported as
\* 2147483647, which is larger than every buffer of the model.
RECURSIVE GetVarint32Loop(_, _, _, _)
GetVarint32Loop(input, p, shift, result) ==
  IF shift > 28 \/ p > Len(input)
    THEN [ok |-> FALSE, value |-> 0, rest |-> input]
    ELSE LET byte == input[p]
             low == IF shift < 28 THEN byte % 128 ELSE byte % 16
             sum == IF shift = 28 /\ low >= 8 THEN 2147483647
                    ELSE result + low * (2 ^ shift)
         IN  IF byte >= 128
               THEN GetVarint32Loop(input, p + 1, shift + 7, sum)
               ELSE [ok |-> TRUE, value |-> sum,
                     rest |-> SubSeq(input, p + 1, Len(input))]

GetVarint32(input) == GetVarint32Loop(input, 1, 0, 0)

PutLengthPrefixedSlice(dst, value) ==
  dst \o EncodeVarint32(Len(value)) \o value

GetLengthPrefixedSlice(input) ==
  LET v == GetVarint32(input)
  IN  IF v.ok /\ Len(v.rest) >= v.value
        THEN [ok |-> TRUE, slice |-> SubSeq(v.rest, 1, v.value),
              rest |-> SubSeq(v.rest, v.value + 1, Len(v.rest))]
        ELSE [ok |-> FALSE, slice |-> <<>>, rest |-> input]

PutFixed64(dst, x) == dst \o EncodeFixed64(x)

GetFixed64(input) ==
  IF Len(input) < 8 THEN [ok |-> FALSE, value |-> U64Zero, rest |-> input]
  ELSE [ok |-> TRUE, value |-> DecodeFixed64(input, 0),
        rest |-> SubSeq(input, 9, Len(input))]

----------------------------------------------------------------------------
(* Status *)

OK == [code |-> "OK", msg |-> ""]
Corruption(msg) == [code |-> "Corruption", msg |-> msg]

----------------------------------------------------------------------------
(* WriteBatch: rep_ := sequence fixed64, count fixed32, record[count] *)

\* std::string::clear and std::string::resize (new bytes are zero)
StringClear(str) == <<>>
StringResize(str, n) ==
  [i \in 1..n |-> IF i <= Len(str) THEN str[i] ELSE 0]

\* Clear without rep_.clear(): the resize keeps the first kHeader bytes
ClearResizeOnly(rep_) == StringResize(rep_, kHeader)

\* rep_.clear(); rep_.resize(kHeader)
WriteBatchClear(rep_) == StringResize(StringClear(rep_), kHeader)

Count(rep_) == DecodeFixed32(rep_, 8)

\* SetCount writing at &rep_[4] instead of &rep_[8]
SetCountAtOffset4(rep_, n) ==
  SubSeq(rep_, 1, 4) \o EncodeFixed32(n) \o SubSeq(rep_, 9, Len(rep_))

SetCount(rep_, n) ==
  SubSeq(rep_, 1, 8) \o EncodeFixed32(n) \o SubSeq(rep_, 13, Len(rep_))

Sequence(rep_) == DecodeFixed64(rep_, 0)

SetSequence(rep_, seq) == EncodeFixed64(seq) \o SubSeq(rep_, 9, Len(rep_))

WriteBatchPut(rep_, key, value) ==
  LET counted == SetCount(rep_, Count(rep_) + 1)
  IN  PutLengthPrefixedSlice(
        PutLengthPrefixedSlice(counted \o <<kTypeValue>>, key), value)

WriteBatchDelete(rep_, key) ==
  LET counted == SetCount(rep_, Count(rep_) + 1)
  IN  PutLengthPrefixedSlice(counted \o <<kTypeDeletion>>, key)

\* Append without the SetCount call
AppendWithoutCount(dst, src) == dst \o SubSeq(src, kHeader + 1, Len(src))

\* WriteBatchInternal::Append(dst, src)
WriteBatchInternalAppend(dst, src) ==
  SetCount(dst, Count(dst) + Count(src)) \o SubSeq(src, kHeader + 1, Len(src))

\* the calls Iterate makes on its handler
HandlerPut(key, value) == [op |-> "Put", key |-> key, value |-> value]
HandlerDelete(key) == [op |-> "Delete", key |-> key]

\* a loop that skips a byte that is not a known tag and carries on
RECURSIVE IterateLoopSkipsUnknownTag(_, _, _)
IterateLoopSkipsUnknownTag(input, found, calls) ==
  IF input = <<>> THEN [status |-> OK, found |-> found, calls |-> calls]
  ELSE
    LET tag == input[1]
        body == Tail(input)
    IN  CASE tag = kTypeValue ->
               LET k == GetLengthPrefixedSlice(body)
                   v == GetLengthPrefixedSlice(k.rest)
               IN  IF k.ok /\ v.ok
                     THEN IterateLoopSkipsUnknownTag(v.rest, found + 1,
                            Append(calls, HandlerPut(k.slice, v.slice)))
                     ELSE [status |-> Corruption("bad WriteBatch Put"),
                           found |-> found + 1, calls |-> calls]
          [] tag = kTypeDeletion ->
               LET k == GetLengthPrefixedSlice(body)
               IN  IF k.ok
                     THEN IterateLoopSkipsUnknownTag(k.rest, found + 1,
                            Append(calls, HandlerDelete(k.slice)))
                     ELSE [status |-> Corruption("bad WriteBatch Delete"),
                           found |-> found + 1, calls |-> calls]
          [] OTHER -> IterateLoopSkipsUnknownTag(body, found, calls)

\* the while loop of WriteBatch::Iterate; status OK is the loop's normal exit
RECURSIVE IterateLoop(_, _, _)
IterateLoop(input, found, calls) ==
  IF input = <<>> THEN [status |-> OK, found |-> found, calls |-> calls]
  ELSE
    LET tag == input[1]
        body == Tail(input)
    IN  CASE tag = kTypeValue ->
               LET k == GetLengthPrefixedSlice(body)
                   v == GetLengthPrefixedSlice(k.rest)
               IN  IF k.ok /\ v.ok
                     THEN IterateLoop(v.rest, found + 1,
                                      Append(calls, HandlerPut(k.slice, v.slice)))
                     ELSE [status |-> Corruption("bad WriteBatch Put"),
                           found |-> found + 1, calls |-> calls]
          [] tag = kTypeDeletion ->
               LET k == GetLengthPrefixedSlice(body)
               IN  IF k.ok
                     THEN IterateLoop(k.rest, found + 1,
                                      Append(calls, HandlerDelete(k.slice)))
                     ELSE [status |-> Corruption("bad WriteBatch Delete"),
                           found |-> found + 1, calls |-> calls]
          [] OTHER ->
               [status |-> Corruption("unknown WriteBatch tag"),
                found |-> found + 1, calls |-> calls]

\* Iterate that validates the whole batch before it dispatches anything
IterateValidateFirst(rep_) ==
  IF Len(rep_) < kHeader
    THEN [status |-> Corruption("malformed WriteBatch (too small)"),
          calls |-> <<>>]
    ELSE LET l == IterateLoop(SubSeq(rep_, kHeader + 1, Len(rep_)), 0, <<>>)
         IN  IF l.status # OK THEN [status |-> l.status, calls |-> <<>>]
             ELSE IF l.found # Count(rep_)
               THEN [status |-> Corruption("WriteBatch has wrong count"),
                     calls |-> <<>>]
               ELSE [status |-> OK, calls |-> l.calls]

\* WriteBatch::Iterate: the status returned and the handler calls made
Iterate(rep_) ==
  IF Len(rep_) < kHeader
    THEN [status |-> Corruption("malformed WriteBatch (too small)"),
          calls |-> <<>>]
    ELSE LET l == IterateLoop(SubSeq(rep_, kHeader + 1, Len(rep_)), 0, <<>>)
         IN  IF l.status # OK THEN [status |-> l.status, calls |-> l.calls]
             ELSE IF l.found # Count(rep_)
               THEN [status |-> Corruption("WriteBatch has wrong count"),
                     calls |-> l.calls]
               ELSE [status |-> OK, calls |-> l.calls]

\* MemTableInserter: h = [sequence_, mem_], mem_ the Add calls made so far
MemTableInserterPut(h, key, value) ==
  [sequence_ |-> Inc64(h.sequence_),
   mem_ |-> Append(h.mem_, [seq |-> h.sequence_, type |-> kTypeValue,
                            key |-> key, value |-> value])]

\* Delete without sequence_++
InserterDeleteNoIncrement(h, key) ==
  [sequence_ |-> h.sequence_,
   mem_ |-> Append(h.mem_, [seq |-> h.sequence_, type |-> kTypeDeletion,
                            key |-> key, value |-> <<>>])]

MemTableInserterDelete(h, key) ==
  [sequence_ |-> Inc64(h.sequence_),
   mem_ |-> Append(h.mem_, [seq |-> h.sequence_, type |-> kTypeDeletion,
                            key |-> key, value |-> <<>>])]

\* the handler h after the calls i.. of Iterate
RECURSIVE InserterDispatch(_, _, _)
InserterDispatch(h, calls, i) ==
  IF i > Len(calls) THEN h
  ELSE InserterDispatch(
         IF calls[i].op = "Put"
           THEN MemTableInserterPut(h, calls[i].key, calls[i].value)
           ELSE MemTableInserterDelete(h, calls[i].key),
         calls, i + 1)

\* WriteBatchInternal::InsertInto(b, memtable), memtable empty before
WriteBatchInternalInsertInto(rep_) ==
  LET inserter == [sequence_ |-> Sequence(rep_), mem_ |-> <<>>]
      it == Iterate(rep_)
  IN  [status |-> it.status,
       mem |-> InserterDispatch(inserter, it.calls, 1).mem_]

----------------------------------------------------------------------------
(* WriteBatchMV: records carry a fixed64 valid time after the key *)

WriteBatchMVClear(rep_) == StringResize(StringClear(rep_), kHeader)

CountMV(rep_) == DecodeFixed32(rep_, 8)

SetCountMV(rep_, n) ==
  SubSeq(rep_, 1, 8) \o EncodeFixed32(n) \o SubSeq(rep_, 13, Len(rep_))

SequenceMV(rep_) == DecodeFixed64(rep_, 0)

SetSequenceMV(rep_, seq) == EncodeFixed64(seq) \o SubSeq(rep_, 9, Len(rep_))

\* Put writing the valid time after the value instead of after the key
PutMVTimeAfterValue(rep_, key, vt, value) ==
  LET counted == SetCountMV(rep_, CountMV(rep_) + 1)
  IN  PutFixed64(
        PutLengthPrefixedSlice(
          PutLengthPrefixedSlice(counted \o <<kTypeValue>>, key), value),
        vt)

WriteBatchMVPut(rep_, key, vt, value) ==
  LET counted == SetCountMV(rep_, CountMV(rep_) + 1)
  IN  PutLengthPrefixedSlice(
        PutFixed64(PutLengthPrefixedSlice(counted \o <<kTypeValue>>, key), vt),
        value)

WriteBatchMVDelete(rep_, key, vt) ==
  LET counted == SetCountMV(rep_, CountMV(rep_) + 1)
  IN  PutFixed64(PutLengthPrefixedSlice(counted \o <<kTypeDeletion>>, key), vt)

\* Append copying the source with its header
AppendMVWithHeader(dst, src) ==
  SetCountMV(dst, CountMV(dst) + CountMV(src)) \o src

WriteBatchMVInternalAppend(dst, src) ==
  SetCountMV(dst, CountMV(dst) + CountMV(src))
    \o SubSeq(src, kHeader + 1, Len(src))

HandlerMVPut(key, vt, value) ==
  [op |-> "Put", key |-> key, vt |-> vt, value |-> value]
HandlerMVDelete(key, vt) == [op |-> "Delete", key |-> key, vt |-> vt]

RECURSIVE IterateMVLoop(_, _, _)
IterateMVLoop(input, found, calls) ==
  IF input = <<>> THEN [status |-> OK, found |-> found, calls |-> calls]
  ELSE
    LET tag == input[1]
        body == Tail(input)
    IN  CASE tag = kTypeValue ->
               LET k == GetLengthPrefixedSlice(body)
                   t == GetFixed64(k.rest)
                   v == GetLengthPrefixedSlice(t.rest)
               IN  IF k.ok /\ t.ok /\ v.ok
                     THEN IterateMVLoop(v.rest, found + 1,
                            Append(calls, HandlerMVPut(k.slice, t.value, v.slice)))
                     ELSE [status |-> Corruption("bad WriteBatchMV Put"),
                           found |-> found + 1, calls |-> calls]
          [] tag = kTypeDeletion ->
               LET k == GetLengthPrefixedSlice(body)
                   t == GetFixed64(k.rest)
               IN  IF k.ok /\ t.ok
                     THEN IterateMVLoop(t.rest, found + 1,
                            Append(calls, HandlerMVDelete(k.slice, t.value)))
                     ELSE [status |-> Corruption("bad WriteBatchMV Delete"),
                           found |-> found + 1, calls |-> calls]
          [] OTHER ->
               [status |-> Corruption("unknown WriteBatchMV tag"),
                found |-> found + 1, calls |-> calls]

\* Iterate without the final comparison of found with the header count
IterateMVNoCountCheck(rep_) ==
  IF Len(rep_) < kHeader
    THEN [status |-> Corruption("malformed WriteBatchMV (too small)"),
          calls |-> <<>>]
    ELSE LET l == IterateMVLoop(SubSeq(rep_, kHeader + 1, Len(rep_)), 0, <<>>)
         IN  [status |-> l.status, calls |-> l.calls]

IterateMV(rep_) ==
  IF Len(rep_) < kHeader
    THEN [status |-> Corruption("malformed WriteBatchMV (too small)"),
          calls |-> <<>>]
    ELSE LET l == IterateMVLoop(SubSeq(rep_, kHeader + 1, Len(rep_)), 0, <<>>)
         IN  IF l.status # OK THEN [status |-> l.status, calls |-> l.calls]
             ELSE IF l.found # CountMV(rep_)
               THEN [status |-> Corruption("WriteBatchMV has wrong count"),
                     calls |-> l.calls]
               ELSE [status |-> OK, calls |-> l.calls]

\* MemTableMVInsertor: mem_ holds the AddMV calls made so far
MemTableMVInsertorPut(h, key, vt, value) ==
  [sequence_ |-> Inc64(h.sequence_),
   mem_ |-> Append(h.mem_, [seq |-> h.sequence_, type |-> kTypeValue,
                            key |-> key, vt |-> vt, value |-> value])]

MemTableMVInsertorDelete(h, key, vt) ==
  [sequence_ |-> Inc64(h.sequence_),
   mem_ |-> Append(h.mem_, [seq |-> h.sequence_, type |-> kTypeDeletion,
                            key |-> key, vt |-> vt, value |-> <<>>])]

RECURSIVE InsertorDispatchMV(_, _, _)
InsertorDispatchMV(h, calls, i) ==
  IF i > Len(calls) THEN h
  ELSE InsertorDispatchMV(
         IF calls[i].op = "Put"
           THEN MemTableMVInsertorPut(h, calls[i].key, calls[i].vt,
                                      calls[i].value)
           ELSE MemTableMVInsertorDelete(h, calls[i].key, calls[i].vt),
         calls, i + 1)

WriteBatchMVInternalInsertInto(rep_) ==
  LET inserter == [sequence_ |-> SequenceMV(rep_), mem_ |-> <<>>]
      it == IterateMV(rep_)
  IN  [status |-> it.status,
       mem |-> InsertorDispatchMV(inserter, it.calls, 1).mem_]

----------------------------------------------------------------------------
(* Internal keys and InternalKeyComparator *)

\* a packing that puts the type in the most significant byte
PackTypeOnTop(seq, t) ==
  <<t, seq[2], seq[3], seq[4], seq[5], seq[6], seq[7], seq[8]>>

\* (seq << 8) | t on 64 bits, for seq <= kMaxSequenceNumber and t <= 1
PackSequenceAndType(seq, t) ==
  <<seq[2], seq[3], seq[4], seq[5], seq[6], seq[7], seq[8], t>>

\* key = [user_key, sequence, type]
AppendInternalKey(result, key) ==
  PutFixed64(result \o key.user_key,
             PackSequenceAndType(key.sequence, key.type))

\* key = [user_key, sequence, type, valid_time]
AppendMVInternalKey(result, key) ==
  PutFixed64(PutFixed64(result \o key.user_key,
                        PackSequenceAndType(key.sequence, key.type)),
             key.valid_time)

ExtractUserKey(internal_key) ==
  SubSeq(internal_key, 1, Len(internal_key) - 8)

MVExtractUserKey(internal_key) ==
  SubSeq(internal_key, 1, Len(internal_key) - 16)

\* the user comparator: BytewiseComparator, Slice::compare
RECURSIVE BytewiseCompareFrom(_, _, _)
BytewiseCompareFrom(a, b, i) ==
  IF i > Len(a) \/ i > Len(b)
    THEN (IF Len(a) < Len(b) THEN -1 ELSE IF Len(a) > Len(b) THEN 1 ELSE 0)
    ELSE IF a[i] < b[i] THEN -1
    ELSE IF a[i] > b[i] THEN 1
    ELSE BytewiseCompareFrom(a, b, i + 1)

UserCompare(a, b) == BytewiseCompareFrom(a, b, 1)

\* a comparator that puts the smaller packed (sequence, type) first
InternalCompareOlderFirst(multi, a, b) ==
  LET s == IF multi THEN 16 ELSE 8
      r0 == UserCompare(SubSeq(a, 1, Len(a) - s), SubSeq(b, 1, Len(b) - s))
      anum == DecodeFixed64(a, Len(a) - s)
      bnum == DecodeFixed64(b, Len(b) - s)
  IN  IF r0 # 0 THEN r0
      ELSE IF Less64(bnum, anum) THEN 1
      ELSE IF Less64(anum, bnum) THEN -1
      ELSE r0

\* a comparator that looks at the packed (sequence, type) before the user key
InternalCompareTrailerFirst(multi, a, b) ==
  LET s == IF multi THEN 16 ELSE 8
      anum == DecodeFixed64(a, Len(a) - s)
      bnum == DecodeFixed64(b, Len(b) - s)
  IN  IF Less64(bnum, anum) THEN -1
      ELSE IF Less64(anum, bnum) THEN 1
      ELSE UserCompare(SubSeq(a, 1, Len(a) - s), SubSeq(b, 1, Len(b) - s))

\* InternalKeyComparator::Compare of a comparator whose flag is multi
InternalCompare(multi, a, b) ==
  LET s == IF multi THEN 16 ELSE 8
      r0 == IF multi
              THEN UserCompare(MVExtractUserKey(a), MVExtractUserKey(b))
              ELSE UserCompare(ExtractUserKey(a), ExtractUserKey(b))
      anum == DecodeFixed64(a, Len(a) - s)
      bnum == DecodeFixed64(b, Len(b) - s)
      at == DecodeFixed64(a, Len(a) - 8)
      bt == DecodeFixed64(b, Len(b) - 8)
  IN  IF r0 # 0 THEN r0
      ELSE IF Less64(bnum, anum) THEN -1
      ELSE IF Less64(anum, bnum)
        THEN (IF multi
                THEN (IF Less64(bt, at) THEN -1
                      ELSE IF Less64(at, bt) THEN 1
                      ELSE 1)
                ELSE 1)
      ELSE r0

Compare(a, b) == InternalCompare(multi_version, a, b)

\* inputs of the comparator
UserKeys == {<<>>, <<97>>, <<97, 98>>}
CmpSeqs == {U64Of(1), U64Of(2), U64Of(256)}
CmpTypes == {kTypeDeletion, kTypeValue}
CmpTimes == {U64Of(1), U64Of(2)}

InternalKeys(multi) ==
  IF multi
    THEN {AppendMVInternalKey(<<>>, [user_key |-> u, sequence |-> q,
                                     type |-> t, valid_time |-> vt]) :
            u \in UserKeys, q \in CmpSeqs, t \in CmpTypes, vt \in CmpTimes}
    ELSE {AppendInternalKey(<<>>, [user_key |-> u, sequence |-> q,
                                   type |-> t]) :
            u \in UserKeys, q \in CmpSeqs, t \in CmpTypes}

\* one call comparator.Compare(akey, bkey)
CallCompare ==
  /\ r.op = "none"
  /\ r' = [op |-> "Compare", value |-> Compare(akey, bkey)]
  /\ UNCHANGED <<multi_version, akey, bkey, batchVars, keyVars>>

----------------------------------------------------------------------------
(* The shortening helpers of InternalKeyComparator *)

\* The user comparator's shortening routines are known by their contract:
\* FindShortestSeparator(&start, limit) leaves start alone unless
\* start < limit and then puts a string of [start, limit) in it;
\* FindShortSuccessor(&key) puts a string >= key in it.  The strings it can
\* return are the old one and the short strings over UserBytes.
UserBytes == {97, 98, 99}
UserStrings ==
  {<<>>} \cup {<<x>> : x \in UserBytes} \cup {<<x, y>> : x, y \in UserBytes}

UserFindShortestSeparator(start, limit) ==
  IF UserCompare(start, limit) < 0
    THEN {t \in UserStrings \cup {start} :
            UserCompare(start, t) <= 0 /\ UserCompare(t, limit) < 0}
    ELSE {start}

UserFindShortSuccessor(key) ==
  {t \in UserStrings \cup {key} : UserCompare(key, t) <= 0}

\* a separator that is rebuilt whatever the user comparator returned
SeparatorAlwaysRebuilt(multi, start, limit, shortened) ==
  LET tmp1 == PutFixed64(shortened,
                PackSequenceAndType(kMaxSequenceNumber, kValueTypeForSeek))
      tmp2 == IF multi THEN PutFixed64(tmp1, kMinValidTime) ELSE tmp1
  IN  [start |-> tmp2, rewritten |-> TRUE,
       asserted |-> /\ InternalCompare(multi, start, tmp2) < 0
                    /\ InternalCompare(multi, tmp2, limit) < 0]

\* InternalKeyComparator::FindShortestSeparator(&start, limit), where the
\* user comparator turns its copy of the user key of start into shortened;
\* asserted: the assertions it evaluated hold
FindShortestSeparator(multi, start, limit, shortened) ==
  LET user_start == IF multi THEN MVExtractUserKey(start)
                             ELSE ExtractUserKey(start)
      tmp1 == PutFixed64(shortened,
                PackSequenceAndType(kMaxSequenceNumber, kValueTypeForSeek))
      tmp2 == IF multi THEN PutFixed64(tmp1, kMinValidTime) ELSE tmp1
  IN  IF Len(shortened) < Len(user_start)
         /\ UserCompare(user_start, shortened) < 0
        THEN [start |-> tmp2, rewritten |-> TRUE,
              asserted |-> /\ InternalCompare(multi, start, tmp2) < 0
                           /\ InternalCompare(multi, tmp2, limit) < 0]
        ELSE [start |-> start, rewritten |-> FALSE, asserted |-> TRUE]

\* the Slice the code hands to user_comparator_->FindShortSuccessor
SuccessorUserKey(key) == ExtractUserKey(key)

\* InternalKeyComparator::FindShortSuccessor(&key), where the user
\* comparator turns its copy of user_key into successor
FindShortSuccessor(multi, key, successor) ==
  LET user_key == SuccessorUserKey(key)
      tmp1 == PutFixed64(successor,
                PackSequenceAndType(kMaxSequenceNumber, kValueTypeForSeek))
      tmp2 == IF multi THEN PutFixed64(tmp1, kMinValidTime) ELSE tmp1
  IN  IF Len(successor) < Len(user_key)
         /\ UserCompare(user_key, successor) < 0
        THEN [key |-> tmp2, rewritten |-> TRUE,
              asserted |-> InternalCompare(multi, key, tmp2) < 0]
        ELSE [key |-> key, rewritten |-> FALSE, asserted |-> TRUE]

\* inputs of the shortening helpers
KeyUserKeys == {<<>>, <<97, 98>>, <<98, 97>>, <<99>>}
KeySeqs == {U64Of(1), kMaxSequenceNumber}
KeyTimes == {U64Zero, U64Of(2)}

KeyInternalKeys(multi) ==
  IF multi
    THEN {AppendMVInternalKey(<<>>, [user_key |-> u, sequence |-> q,
                                     type |-> t, valid_time |-> vt]) :
            u \in KeyUserKeys, q \in KeySeqs, t \in CmpTypes, vt \in KeyTimes}
    ELSE {AppendInternalKey(<<>>, [user_key |-> u, sequence |-> q,
                                   type |-> t]) :
            u \in KeyUserKeys, q \in KeySeqs, t \in CmpTypes}

\* one call comparator.FindShortestSeparator(&akey, bkey)
CallFindShortestSeparator ==
  /\ r.op = "none"
  /\ \E shortened \in
         IF multi_version
           THEN UserFindShortestSeparator(MVExtractUserKey(akey),
                                          MVExtractUserKey(bkey))
           ELSE UserFindShortestSeparator(ExtractUserKey(akey),
                                          ExtractUserKey(bkey)) :
       LET res == FindShortestSeparator(multi_version, akey, bkey, shortened)
       IN  /\ akey' = res.start
           /\ r' = [op |-> "FindShortestSeparator", start |-> akey,
                    shortened |-> shortened, rewritten |-> res.rewritten,
                    asserted |-> res.asserted]
  /\ UNCHANGED <<multi_version, bkey, batchVars, keyVars>>

\* one call comparator.FindShortSuccessor(&akey)
CallFindShortSuccessor ==
  /\ r.op = "none"
  /\ \E successor \in UserFindShortSuccessor(SuccessorUserKey(akey)) :
       LET res == FindShortSuccessor(multi_version, akey, successor)
       IN  /\ akey' = res.key
           /\ r' = [op |-> "FindShortSuccessor", key |-> akey,
                    user_key |-> SuccessorUserKey(akey),
                    successor |-> successor, rewritten |-> res.rewritten,
                    asserted |-> res.asserted]
  /\ UNCHANGED <<multi_version, bkey, batchVars, keyVars>>

----------------------------------------------------------------------------
(* InternalFilterPolicy *)

\* The user policy is known by its contract: no false negatives.  A filter
\* is modelled by the set of keys it was built from; a probe of one of them
\* answers TRUE, a probe of any other key may answer either way.
UserCreateFilter(ks, n, dst) == dst \cup {ks[i] : i \in 1..n}

UserKeyMayMatch(key, f) == IF key \in f THEN {TRUE} ELSE BOOLEAN

\* InternalFilterPolicy::CreateFilter(keys, n, dst): the array after the
\* loop over mkey[i], and the filter the user policy then builds from it
CreateFilterKeys(ks, n) ==
  [i \in 1..Len(ks) |-> IF i <= n THEN ExtractUserKey(ks[i]) ELSE ks[i]]

CreateFilter(ks, n, dst) == UserCreateFilter(CreateFilterKeys(ks, n), n, dst)

\* the Slice InternalFilterPolicy::KeyMayMatch(key, f) hands to the user policy
KeyMayMatchKey(key) == ExtractUserKey(key)

\* inputs of the filter policy: internal keys of the database's mode
FilterUserKeys == {<<>>, <<97>>}
FilterSeqs == {U64Of(1), U64Of(2)}

FilterKeys(multi) ==
  IF multi
    THEN {AppendMVInternalKey(<<>>, [user_key |-> u, sequence |-> q,
                                     type |-> t, valid_time |-> vt]) :
            u \in FilterUserKeys, q \in FilterSeqs, t \in CmpTypes,
            vt \in CmpTimes}
    ELSE {AppendInternalKey(<<>>, [user_key |-> u, sequence |-> q,
                                   type |-> t]) :
            u \in FilterUserKeys, q \in FilterSeqs, t \in CmpTypes}

FilterKeyArrays(multi) ==
  {<<>>} \cup {<<k>> : k \in FilterKeys(multi)}
         \cup {<<k, l>> : k, l \in FilterKeys(multi)}

\* one call policy.CreateFilter(keys, n, &filter) with n = the array's length
CallCreateFilter ==
  /\ r.op = "none"
  /\ keys' = CreateFilterKeys(keys, Len(keys))
  /\ filter' = CreateFilter(keys, Len(keys), filter)
  /\ r' = [op |-> "CreateFilter", given |-> keys]
  /\ UNCHANGED <<multi_version, akey, bkey, lkey, batchVars>>

\* one call policy.KeyMayMatch(key, filter) on the filter that was built
CallKeyMayMatch ==
  /\ r.op = "CreateFilter"
  /\ \E key \in FilterKeys(multi_version) :
       \E value \in UserKeyMayMatch(KeyMayMatchKey(key), filter) :
         r' = [op |-> "KeyMayMatch", given |-> r.given, key |-> key,
               user_key |-> KeyMayMatchKey(key), value |-> value]
  /\ UNCHANGED <<multi_version, akey, bkey, keyVars, batchVars>>

----------------------------------------------------------------------------
(* Encoding of internal keys *)

\* inputs of AppendInternalKey / AppendMVInternalKey
EncUserKeys == {<<>>, <<107>>, <<0, 255>>}
EncSeqs == {U64Zero, U64Of(1), U64Of(65536 + 255), kMaxSequenceNumber}
EncTimes == {U64Zero, U64Of(42), <<255, 255, 255, 255, 255, 255, 255, 255>>}
EncBuffers == {<<>>, <<1, 2, 3>>}

\* one call AppendInternalKey(&akey, key)
CallAppendInternalKey ==
  /\ r.op = "none"
  /\ lkey.op = "none"
  /\ \E u \in EncUserKeys, q \in EncSeqs, t \in CmpTypes :
       LET key == [user_key |-> u, sequence |-> q, type |-> t]
       IN  /\ akey' = AppendInternalKey(akey, key)
           /\ r' = [op |-> "AppendInternalKey", result |-> akey, key |-> key]
  /\ UNCHANGED <<multi_version, bkey, keyVars, batchVars>>

\* one call AppendMVInternalKey(&akey, key)
CallAppendMVInternalKey ==
  /\ r.op = "none"
  /\ lkey.op = "none"
  /\ \E u \in EncUserKeys, q \in EncSeqs, t \in CmpTypes, vt \in EncTimes :
       LET key == [user_key |-> u, sequence |-> q, type |-> t,
                   valid_time |-> vt]
       IN  /\ akey' = AppendMVInternalKey(akey, key)
           /\ r' = [op |-> "AppendMVInternalKey", result |-> akey,
                    key |-> key]
  /\ UNCHANGED <<multi_version, bkey, keyVars, batchVars>>

----------------------------------------------------------------------------
(* LookupKey and MVLookupKey *)

\* A Slice given to the constructors is [size, data]: size is its size() as
\* a 64-bit size_t; data holds its bytes, all of them for the short keys and
\* none of them for the keys too long to write down.  The buffer is kept as
\* the runs of bytes the constructor writes one after the other, and start_,
\* kstart_ and end_ as offsets from the buffer's first byte.

\* a constructor that sizes the buffer without room for the varint
LookupKeyTightBuffer(user_key, s) ==
  LET usize == user_key.size
      needed == Add64(usize, 8)
      len == EncodeVarint32Of(Add64(usize, 8))
  IN  [op |-> "LookupKey",
       needed |-> needed,
       inline |-> ~Less64(U64Of(kSpaceSize), needed),
       start_ |-> U64Zero,
       kstart_ |-> U64Of(Len(len)),
       end_ |-> Add64(Add64(usize, Len(len)), 8),
       buf |-> <<len, user_key.data,
                 EncodeFixed64(PackSequenceAndType(s, kValueTypeForSeek))>>]

\* LookupKey::LookupKey(user_key, s)
LookupKey(user_key, s) ==
  LET usize == user_key.size
      needed == Add64(usize, 13)
      len == EncodeVarint32Of(Add64(usize, 8))
  IN  [op |-> "LookupKey",
       needed |-> needed,
       inline |-> ~Less64(U64Of(kSpaceSize), needed),
       start_ |-> U64Zero,
       kstart_ |-> U64Of(Len(len)),
       end_ |-> Add64(Add64(usize, Len(len)), 8),
       buf |-> <<len, user_key.data,
                 EncodeFixed64(PackSequenceAndType(s, kValueTypeForSeek))>>]

\* MVLookupKey::MVLookupKey(user_key, s, t)
MVLookupKey(user_key, s, t) ==
  LET usize == user_key.size
      needed == Add64(usize, 21)
      len == EncodeVarint32Of(Add64(usize, 16))
  IN  [op |-> "MVLookupKey",
       needed |-> needed,
       inline |-> ~Less64(U64Of(kSpaceSize), needed),
       start_ |-> U64Zero,
       kstart_ |-> U64Of(Len(len)),
       end_ |-> Add64(Add64(Add64(usize, Len(len)), 8), 8),
       buf |-> <<len, user_key.data,
                 EncodeFixed64(PackSequenceAndType(s, kValueTypeForSeek)),
                 EncodeFixed64(t)>>]

\* inputs of the constructors: short keys with their bytes, and keys around
\* the sizes where the varint grows, where the inline buffer no longer fits
\* and where size + 8 or size + 16 leaves 32 bits
ShortSlices ==
  {[size |-> U64Of(Len(d)), data |-> d] : d \in {<<>>, <<107>>, <<107, 0>>}}
LongSizes ==
  {U64Of(111), U64Of(112), U64Of(119), U64Of(120), U64Of(179), U64Of(180),
   U64Of(187), U64Of(188), U64Of(16376), U64Of(268435448),
   <<0, 0, 0, 0, 255, 255, 255, 239>>, <<0, 0, 0, 0, 255, 255, 255, 240>>,
   <<0, 0, 0, 0, 255, 255, 255, 247>>, <<0, 0, 0, 0, 255, 255, 255, 248>>,
   <<0, 0, 0, 0, 255, 255, 255, 255>>}
LongSlices == {[size |-> n, data |-> <<>>] : n \in LongSizes}
LookupSlices == ShortSlices \cup LongSlices
LookupSeqs == {U64Of(1), kMaxSequenceNumber}
LookupTimes == {U64Zero, <<255, 255, 255, 255, 255, 255, 255, 255>>}

\* LookupKey k(user_key, s)
ConstructLookupKey ==
  /\ r.op = "none"
  /\ lkey.op = "none"
  /\ \E user_key \in LookupSlices, s \in LookupSeqs :
       /\ lkey' = LookupKey(user_key, s)
       /\ r' = [op |-> "LookupKey", user_key |-> user_key, s |-> s]
  /\ UNCHANGED <<multi_version, akey, bkey, keys, filter, batchVars>>

\* MVLookupKey k(user_key, s, t)
ConstructMVLookupKey ==
  /\ r.op = "none"
  /\ lkey.op = "none"
  /\ \E user_key \in LookupSlices, s \in LookupSeqs, t \in LookupTimes :
       /\ lkey' = MVLookupKey(user_key, s, t)
       /\ r' = [op |-> "MVLookupKey", user_key |-> user_key, s |-> s,
                t |-> t]
  /\ UNCHANGED <<multi_version, akey, bkey, keys, filter, batchVars>>

----------------------------------------------------------------------------
(* Inputs of the batch operations *)

\* the batch that is appended to, replayed and iterated, and a source batch
BatchIds == {"dst", "src"}

Keys == {<<>>, <<107>>}
Values == {<<118, 119>>}
\* the (key, valid time) pairs written to WriteBatchMV objects
TimedKeys == {<<<<>>, U64Of(42)>>, <<<<107>>, <<1, 2, 3, 4, 5, 6, 7, 8>>>>}
SeqVals == {U64Of(255)}

\* records held by both batches together, by their header counts
Held == IF mv THEN CountMV(rep["dst"]) + CountMV(rep["src"])
        ELSE Count(rep["dst"]) + Count(rep["src"])

\* raw contents for SetContents: a header and up to MaxRaw byte tokens
RawTokens == {<<0>>, <<1>>, <<2>>, <<128>>, EncodeFixed64(U64Of(42))}

RECURSIVE RawPayloads(_)
RawPayloads(n) ==
  IF n = 0 THEN {<<>>}
  ELSE LET P == RawPayloads(n - 1)
       IN  P \cup {p \o t : p \in P, t \in RawTokens}

RawContents ==
  {EncodeFixed64(U64Of(255)) \o EncodeFixed32(c) \o p :
     c \in 0..MaxCount, p \in RawPayloads(MaxRaw)}

\* history of a batch whose contents were installed, not built
Installed == <<[op |-> "SetContents"]>>
HistAdd(h, call) == IF h = Installed THEN Installed ELSE Append(h, call)
HistCat(h, g) == IF h = Installed \/ g = Installed THEN Installed ELSE h \o g

----------------------------------------------------------------------------
(* Operations on WriteBatch objects (mv = FALSE) *)

Clear(w) ==
  /\ ~mv
  /\ rep' = [rep EXCEPT ![w] = WriteBatchClear(rep[w])]
  /\ hist' = [hist EXCEPT ![w] = <<>>]
  /\ ret' = [op |-> "Clear", w |-> w]
  /\ UNCHANGED <<mv, cmpVars, keyVars>>

Put(w, key, value) ==
  /\ ~mv
  /\ Held < MaxRecs
  /\ rep' = [rep EXCEPT ![w] = WriteBatchPut(rep[w], key, value)]
  /\ hist' = [hist EXCEPT ![w] = HistAdd(hist[w], HandlerPut(key, value))]
  /\ ret' = [op |-> "Put", w |-> w]
  /\ UNCHANGED <<mv, cmpVars, keyVars>>

Delete(w, key) ==
  /\ ~mv
  /\ Held < MaxRecs
  /\ rep' = [rep EXCEPT ![w] = WriteBatchDelete(rep[w], key)]
  /\ hist' = [hist EXCEPT ![w] = HistAdd(hist[w], HandlerDelete(key))]
  /\ ret' = [op |-> "Delete", w |-> w]
  /\ UNCHANGED <<mv, cmpVars, keyVars>>

\* WriteBatch::Append(source): dst.Append(src)
WriteBatchAppend(dst, src) ==
  /\ ~mv
  /\ dst # src
  /\ Held + Count(rep[src]) <= MaxRecs
  /\ rep' = [rep EXCEPT ![dst] = WriteBatchInternalAppend(rep[dst], rep[src])]
  /\ hist' = [hist EXCEPT ![dst] = HistCat(hist[dst], hist[src])]
  /\ ret' = [op |-> "Append", w |-> dst]
  /\ UNCHANGED <<mv, cmpVars, keyVars>>

CallSetSequence(w, seq) ==
  /\ ~mv
  /\ rep' = [rep EXCEPT ![w] = SetSequence(rep[w], seq)]
  /\ ret' = [op |-> "SetSequence", w |-> w]
  /\ UNCHANGED <<mv, hist, cmpVars, keyVars>>

\* WriteBatchInternal::SetContents(b, contents)
SetContents(w, contents) ==
  /\ ~mv
  /\ Len(contents) >= kHeader
  /\ rep' = [rep EXCEPT ![w] = contents]
  /\ hist' = [hist EXCEPT ![w] = Installed]
  /\ ret' = [op |-> "SetContents", w |-> w]
  /\ UNCHANGED <<mv, cmpVars, keyVars>>

\* b->Iterate(handler) with a handler that records its calls
CallIterate(w) ==
  /\ ~mv
  /\ ret' = [op |-> "Iterate", w |-> w,
             status |-> Iterate(rep[w]).status, calls |-> Iterate(rep[w]).calls]
  /\ UNCHANGED <<mv, rep, hist, cmpVars, keyVars>>

\* WriteBatchInternal::InsertInto(b, memtable) on an empty memtable
InsertInto(w) ==
  /\ ~mv
  /\ ret' = [op |-> "InsertInto", w |-> w,
             status |-> WriteBatchInternalInsertInto(rep[w]).status,
             mem |-> WriteBatchInternalInsertInto(rep[w]).mem]
  /\ UNCHANGED <<mv, rep, hist, cmpVars, keyVars>>

----------------------------------------------------------------------------
(* Operations on WriteBatchMV objects (mv = TRUE) *)

ClearMV(w) ==
  /\ mv
  /\ rep' = [rep EXCEPT ![w] = WriteBatchMVClear(rep[w])]
  /\ hist' = [hist EXCEPT ![w] = <<>>]
  /\ ret' = [op |-> "Clear", w |-> w]
  /\ UNCHANGED <<mv, cmpVars, keyVars>>

PutMV(w, key, vt, value) ==
  /\ mv
  /\ Held < MaxRecs
  /\ rep' = [rep EXCEPT ![w] = WriteBatchMVPut(rep[w], key, vt, value)]
  /\ hist' = [hist EXCEPT ![w] =
                HistAdd(hist[w], HandlerMVPut(key, vt, value))]
  /\ ret' = [op |-> "Put", w |-> w]
  /\ UNCHANGED <<mv, cmpVars, keyVars>>

DeleteMV(w, key, vt) ==
  /\ mv
  /\ Held < MaxRecs
  /\ rep' = [rep EXCEPT ![w] = WriteBatchMVDelete(rep[w], key, vt)]
  /\ hist' = [hist EXCEPT ![w] = HistAdd(hist[w], HandlerMVDelete(key, vt))]
  /\ ret' = [op |-> "Delete", w |-> w]
  /\ UNCHANGED <<mv, cmpVars, keyVars>>

WriteBatchMVAppend(dst, src) ==
  /\ mv
  /\ dst # src
  /\ Held + CountMV(rep[src]) <= MaxRecs
  /\ rep' = [rep EXCEPT ![dst] = WriteBatchMVInternalAppend(rep[dst], rep[src])]
  /\ hist' = [hist EXCEPT ![dst] = HistCat(hist[dst], hist[src])]
  /\ ret' = [op |-> "Append", w |-> dst]
  /\ UNCHANGED <<mv, cmpVars, keyVars>>

CallSetSequenceMV(w, seq) ==
  /\ mv
  /\ rep' = [rep EXCEPT ![w] = SetSequenceMV(rep[w], seq)]
  /\ ret' = [op |-> "SetSequence", w |-> w]
  /\ UNCHANGED <<mv, hist, cmpVars, keyVars>>

SetContentsMV(w, contents) ==
  /\ mv
  /\ Len(contents) >= kHeader
  /\ rep' = [rep EXCEPT ![w] = contents]
  /\ hist' = [hist EXCEPT ![w] = Installed]
  /\ ret' = [op |-> "SetContents", w |-> w]
  /\ UNCHANGED <<mv, cmpVars, keyVars>>

CallIterateMV(w) ==
  /\ mv
  /\ ret' = [op |-> "Iterate", w |-> w,
             status |-> IterateMV(rep[w]).status,
             calls |-> IterateMV(rep[w]).calls]
  /\ UNCHANGED <<mv, rep, hist, cmpVars, keyVars>>

InsertIntoMV(w) ==
  /\ mv
  /\ ret' = [op |-> "InsertInto", w |-> w,
             status |-> WriteBatchMVInternalInsertInto(rep[w]).status,
             mem |-> WriteBatchMVInternalInsertInto(rep[w]).mem]
  /\ UNCHANGED <<mv, rep, hist, cmpVars, keyVars>>

----------------------------------------------------------------------------
(* Specifications *)

\* two newly constructed batches (the constructors call Clear) of one class
Init ==
  /\ mv \in BOOLEAN
  /\ rep = [w \in BatchIds |-> IF mv THEN WriteBatchMVClear(<<>>)
                                ELSE WriteBatchClear(<<>>)]
  /\ hist = [w \in BatchIds |-> <<>>]
  /\ ret = [op |-> "new", w |-> "dst"]
  /\ multi_version = FALSE
  /\ akey = <<>>
  /\ bkey = <<>>
  /\ r = [op |-> "none"]
  /\ keys = <<>>
  /\ filter = {}
  /\ lkey = [op |-> "none"]

\* batches built and replayed through the public operations
Next ==
  \/ \E w \in BatchIds : Clear(w)
  \/ \E w \in BatchIds, k \in Keys, v \in Values : Put(w, k, v)
  \/ \E w \in BatchIds, k \in Keys : Delete(w, k)
  \/ WriteBatchAppend("dst", "src")
  \/ \E q \in SeqVals : CallSetSequence("dst", q)
  \/ Held + Count(rep["src"]) <= MaxRecs /\ SetContents("dst", rep["src"])
  \/ CallIterate("dst")
  \/ InsertInto("dst")
  \/ \E w \in BatchIds : ClearMV(w)
  \/ \E w \in BatchIds, kt \in TimedKeys, v \in Values :
       PutMV(w, kt[1], kt[2], v)
  \/ \E w \in BatchIds, kt \in TimedKeys : DeleteMV(w, kt[1], kt[2])
  \/ WriteBatchMVAppend("dst", "src")
  \/ \E q \in SeqVals : CallSetSequenceMV("dst", q)
  \/ Held + CountMV(rep["src"]) <= MaxRecs /\ SetContentsMV("dst", rep["src"])
  \/ CallIterateMV("dst")
  \/ InsertIntoMV("dst")

Spec == Init /\ [][Next]_vars

\* one batch given arbitrary contents, then iterated and replayed; SetContents
\* overwrites the whole buffer, so it is applied to a batch without records
NextRaw ==
  \/ Len(rep["dst"]) = kHeader /\ \E c \in RawContents : SetContents("dst", c)
  \/ CallIterate("dst")
  \/ InsertInto("dst")
  \/ Clear("dst")
  \/ Len(rep["dst"]) = kHeader /\ \E c \in RawContents : SetContentsMV("dst", c)
  \/ CallIterateMV("dst")
  \/ InsertIntoMV("dst")
  \/ ClearMV("dst")

SpecRaw == Init /\ [][NextRaw]_vars

\* a comparator of either mode and a pair of internal keys of its mode
InitCmp ==
  /\ mv = FALSE
  /\ rep = [w \in BatchIds |-> WriteBatchClear(<<>>)]
  /\ hist = [w \in BatchIds |-> <<>>]
  /\ ret = [op |-> "new", w |-> "dst"]
  /\ multi_version \in BOOLEAN
  /\ akey \in InternalKeys(multi_version)
  /\ bkey \in InternalKeys(multi_version)
  /\ r = [op |-> "none"]
  /\ keys = <<>>
  /\ filter = {}
  /\ lkey = [op |-> "none"]

NextCmp == CallCompare

SpecCmp == InitCmp /\ [][NextCmp]_vars

\* a comparator of either mode, a pair of internal keys of its mode, and one
\* call of a shortening helper
InitKey ==
  /\ mv = FALSE
  /\ rep = [w \in BatchIds |-> WriteBatchClear(<<>>)]
  /\ hist = [w \in BatchIds |-> <<>>]
  /\ ret = [op |-> "new", w |-> "dst"]
  /\ multi_version \in BOOLEAN
  /\ akey \in KeyInternalKeys(multi_version)
  /\ bkey \in KeyInternalKeys(multi_version)
  /\ r = [op |-> "none"]
  /\ keys = <<>>
  /\ filter = {}
  /\ lkey = [op |-> "none"]

NextKey ==
  \/ CallFindShortestSeparator
  \/ CallFindShortSuccessor

SpecKey == InitKey /\ [][NextKey]_vars

\* a filter policy given an array of internal keys of the database's mode,
\* then probed with an internal key of that mode
InitFilter ==
  /\ mv = FALSE
  /\ rep = [w \in BatchIds |-> WriteBatchClear(<<>>)]
  /\ hist = [w \in BatchIds |-> <<>>]
  /\ ret = [op |-> "new", w |-> "dst"]
  /\ multi_version \in BOOLEAN
  /\ akey = <<>>
  /\ bkey = <<>>
  /\ r = [op |-> "none"]
  /\ keys \in FilterKeyArrays(multi_version)
  /\ filter = {}
  /\ lkey = [op |-> "none"]

NextFilter ==
  \/ CallCreateFilter
  \/ CallKeyMayMatch

SpecFilter == InitFilter /\ [][NextFilter]_vars

\* a buffer to which one internal key is appended, or one lookup key
\* constructed
InitEnc ==
  /\ mv = FALSE
  /\ rep = [w \in BatchIds |-> WriteBatchClear(<<>>)]
  /\ hist = [w \in BatchIds |-> <<>>]
  /\ ret = [op |-> "new", w |-> "dst"]
  /\ multi_version = FALSE
  /\ akey \in EncBuffers
  /\ bkey = <<>>
  /\ r = [op |-> "none"]
  /\ keys = <<>>
  /\ filter = {}
  /\ lkey = [op |-> "none"]

NextEnc ==
  \/ CallAppendInternalKey
  \/ CallAppendMVInternalKey
  \/ ConstructLookupKey
  \/ ConstructMVLookupKey

SpecEnc == InitEnc /\ [][NextEnc]_vars

----------------------------------------------------------------------------
(* The record format, stated on its own: what the claims compare the code to *)


Payload(b) == SubSeq(b, kHeader + 1, Len(b))
CountOf(b) == IF mv THEN CountMV(b) ELSE Count(b)
SequenceOf(b) == IF mv THEN SequenceMV(b) ELSE Sequence(b)
IterateOf(b) == IF mv THEN IterateMV(b) ELSE Iterate(b)

\* e is varint32(Len(x)) followed by exactly the bytes x
IsPrefixedSlice(e, x) ==
  LET v == GetVarint32(e)
  IN  v.ok /\ v.value = Len(x) /\ v.rest = x

\* e is a length-prefixed slice
IsLengthPrefixed(e) ==
  LET v == GetVarint32(e)
  IN  v.ok /\ v.value = Len(v.rest)

\* e is one well-formed record of a batch of the current class
IsRecord(e) ==
  /\ Len(e) >= 1
  /\ e[1] \in {kTypeDeletion, kTypeValue}
  /\ IF mv
       THEN \E i \in 1..Len(e) :
              /\ IsLengthPrefixed(SubSeq(e, 2, i))
              /\ IF e[1] = kTypeDeletion THEN Len(e) = i + 8
                 ELSE /\ Len(e) > i + 8
                      /\ IsLengthPrefixed(SubSeq(e, i + 9, Len(e)))
       ELSE IF e[1] = kTypeDeletion THEN IsLengthPrefixed(Tail(e))
            ELSE \E i \in 1..Len(e) :
                   /\ IsLengthPrefixed(SubSeq(e, 2, i))
                   /\ IsLengthPrefixed(SubSeq(e, i + 1, Len(e)))

\* p is exactly n well-formed records
RECURSIVE IsRecords(_, _)
IsRecords(p, n) ==
  IF n <= 0 THEN n = 0 /\ p = <<>>
  ELSE \E k \in 1..Len(p) :
         /\ IsRecord(SubSeq(p, 1, k))
         /\ IsRecords(SubSeq(p, k + 1, Len(p)), n - 1)

\* p is a sequence of well-formed records
IsRecordSeq(p) == \E n \in 0..Len(p) : IsRecords(p, n)

\* p starts with a well-formed record
StartsWithRecord(p) == \E k \in 1..Len(p) : IsRecord(SubSeq(p, 1, k))

\* e is the encoding of the record that the memtable add a carries
EncodesAdd(e, a) ==
  /\ Len(e) >= 1
  /\ e[1] = a.type
  /\ a.type = kTypeDeletion => a.value = <<>>
  /\ IF mv
       THEN \E i \in 1..Len(e) :
              /\ IsPrefixedSlice(SubSeq(e, 2, i), a.key)
              /\ Len(e) >= i + 8
              /\ SubSeq(e, i + 1, i + 8) = EncodeFixed64(a.vt)
              /\ IF a.type = kTypeDeletion THEN Len(e) = i + 8
                 ELSE IsPrefixedSlice(SubSeq(e, i + 9, Len(e)), a.value)
       ELSE IF a.type = kTypeDeletion THEN IsPrefixedSlice(Tail(e), a.key)
            ELSE \E i \in 1..Len(e) :
                   /\ IsPrefixedSlice(SubSeq(e, 2, i), a.key)
                   /\ IsPrefixedSlice(SubSeq(e, i + 1, Len(e)), a.value)

\* p is exactly the encodings of the adds i.. in order
RECURSIVE EncodesAdds(_, _, _)
EncodesAdds(p, adds, i) ==
  IF i > Len(adds) THEN p = <<>>
  ELSE \E k \in 1..Len(p) :
         /\ EncodesAdd(SubSeq(p, 1, k), adds[i])
         /\ EncodesAdds(SubSeq(p, k + 1, Len(p)), adds, i + 1)

\* the memtable add that replaying the call at sequence number seq makes
ExpectedAdd(call, seq) ==
  IF mv
    THEN [seq |-> seq,
          type |-> IF call.op = "Put" THEN kTypeValue ELSE kTypeDeletion,
          key |-> call.key, vt |-> call.vt,
          value |-> IF call.op = "Put" THEN call.value ELSE <<>>]
    ELSE [seq |-> seq,
          type |-> IF call.op = "Put" THEN kTypeValue ELSE kTypeDeletion,
          key |-> call.key,
          value |-> IF call.op = "Put" THEN call.value ELSE <<>>]

Built(w) == hist[w] # Installed

----------------------------------------------------------------------------
(* Claims *)

\* C1: replaying a batch built by put/delete/append, whose header holds
\* sequence s and count n, makes exactly n memtable adds; the i-th add
\* (i = 0..n-1, in insertion order) carries sequence s + i and the tag, key,
\* valid time (MV) and value of the i-th record, a deletion an empty value.
C1_ReplayOrdering ==
  (ret.op = "InsertInto" /\ Built(ret.w)) =>
    LET b == rep[ret.w]
        h == hist[ret.w]
    IN  /\ ret.status = OK
        /\ Len(ret.mem) = CountOf(b)
        /\ Len(ret.mem) = Len(h)
        /\ \A i \in 1..Len(h) :
             ret.mem[i] = ExpectedAdd(h[i], Add64(SequenceOf(b), i - 1))

C1_Witness ==
  /\ mv
  /\ ret.op = "InsertInto"
  /\ Built(ret.w)
  /\ Len(ret.mem) = 3
  /\ ret.mem[1].seq = U64Of(255)
  /\ ret.mem[1].type = kTypeValue
  /\ ret.mem[2].type = kTypeDeletion
  /\ ret.mem[1].key # ret.mem[2].key

\* C2 as stated: insert_into either adds every record and returns OK, or
\* returns Corruption having made no add call on the memtable.
C2_AtomicApply ==
  ret.op = "InsertInto" =>
    \/ ret.status = OK /\ Len(ret.mem) = CountOf(rep[ret.w])
    \/ ret.status.code = "Corruption" /\ ret.mem = <<>>

\* C2 amended: insert_into either adds every record of the batch and returns
\* OK, or returns Corruption having added exactly the well-formed records
\* that precede the first malformed record (every record, when only the
\* header count is wrong).
C2_AppliedPrefix ==
  ret.op = "InsertInto" =>
    LET b == rep[ret.w]
        p == Payload(b)
    IN  \E n \in 0..Len(p) :
          LET rest == SubSeq(p, n + 1, Len(p))
          IN  /\ EncodesAdds(SubSeq(p, 1, n), ret.mem, 1)
              /\ IF ret.status = OK
                   THEN rest = <<>> /\ Len(ret.mem) = CountOf(b)
                   ELSE /\ ret.status.code = "Corruption"
                        /\ rest = <<>> => Len(ret.mem) # CountOf(b)
                        /\ rest # <<>> => ~StartsWithRecord(rest)

C2_Witness ==
  /\ ret.op = "InsertInto"
  /\ ret.status.code = "Corruption"
  /\ Len(ret.mem) >= 1
  /\ StartsWithRecord(Payload(rep[ret.w]))
  /\ ~IsRecordSeq(Payload(rep[ret.w]))

\* C3: in every state reachable from a new batch by put, delete, clear and
\* append, the header count equals the number of records encoded after the
\* 12-byte header, the buffer is at least 12 bytes long and iterate returns OK.
C3_HeaderCount ==
  \A w \in BatchIds :
    Built(w) =>
      /\ Len(rep[w]) >= kHeader
      /\ CountOf(rep[w]) = Len(hist[w])
      /\ IsRecords(Payload(rep[w]), CountOf(rep[w]))
      /\ IterateOf(rep[w]).status = OK

C3_Witness ==
  /\ ret.op = "Append"
  /\ Built("dst")
  /\ Built("src")
  /\ CountOf(rep["dst"]) = 2
  /\ CountOf(rep["src"]) = 1

\* C4: iterate returns OK iff the buffer has at least 12 bytes, the bytes
\* after the header are a sequence of well-formed records and their number
\* equals the header count; otherwise it returns one of the Corruption
\* statuses (too small, bad Put, bad Delete, unknown tag, wrong count).
C4_BatchFraming ==
  ret.op = "Iterate" =>
    LET b == rep[ret.w]
        cls == IF mv THEN "WriteBatchMV" ELSE "WriteBatch"
    IN  /\ ret.status = OK <=>
             (Len(b) >= kHeader /\ IsRecords(Payload(b), CountOf(b)))
        /\ ret.status # OK =>
             /\ ret.status.code = "Corruption"
             /\ ret.status.msg \in
                  {"malformed " \o cls \o " (too small)",
                   "bad " \o cls \o " Put", "bad " \o cls \o " Delete",
                   "unknown " \o cls \o " tag", cls \o " has wrong count"}

C4_Witness ==
  /\ ret.op = "Iterate"
  /\ ~Built(ret.w)
  /\ ret.status = OK
  /\ Len(ret.calls) >= 1

\* C5: iterating a batch built by a sequence of put/delete calls dispatches
\* exactly that sequence of calls to the handler, in insertion order, with
\* the same key, value and (MV) valid time.
C5_RoundTrip ==
  (ret.op = "Iterate" /\ Built(ret.w)) =>
    /\ ret.status = OK
    /\ ret.calls = hist[ret.w]

C5_Witness ==
  /\ mv
  /\ ret.op = "Iterate"
  /\ Built(ret.w)
  /\ Len(ret.calls) = 3
  /\ ret.calls[1].op = "Delete"
  /\ ret.calls[2].op = "Put"
  /\ ret.calls[2].key # ret.calls[3].key

\* C6: for well-formed batches a and b, after a.append(b) the size of a is
\* size(a) + size(b) - 12, its count is count(a) + count(b), and iterating
\* it yields the records of the old a followed by the records of b.
C6_AppendConcatenation ==
  [][(/\ ret'.op = "Append"
      /\ IterateOf(rep["dst"]).status = OK
      /\ IterateOf(rep["src"]).status = OK) =>
       /\ Len(rep'["dst"]) = Len(rep["dst"]) + Len(rep["src"]) - kHeader
       /\ CountOf(rep'["dst"]) = CountOf(rep["dst"]) + CountOf(rep["src"])
       /\ IterateOf(rep'["dst"]).status = OK
       /\ IterateOf(rep'["dst"]).calls =
            IterateOf(rep["dst"]).calls \o IterateOf(rep["src"]).calls]_vars

C6_Witness ==
  /\ mv
  /\ ret.op = "Append"
  /\ CountOf(rep["dst"]) = 2
  /\ CountOf(rep["src"]) = 1
  /\ IterateOf(rep["dst"]).calls[1] # IterateOf(rep["dst"]).calls[2]

\* C7: put, delete and append change neither the sequence field of the
\* destination nor any byte of its already encoded records, and leave the
\* other batch (the source of an append) unchanged; the sequence field
\* changes only in set_sequence, set_contents and clear.
C7_SequenceFramed ==
  [][LET d == ret'.w
         o == IF d = "dst" THEN "src" ELSE "dst"
     IN  /\ ret'.op \in {"Put", "Delete", "Append"} =>
               /\ SubSeq(rep'[d], 1, 8) = SubSeq(rep[d], 1, 8)
               /\ Len(rep'[d]) >= Len(rep[d])
               /\ SubSeq(rep'[d], kHeader + 1, Len(rep[d])) = Payload(rep[d])
               /\ rep'[o] = rep[o]
         /\ \A w \in BatchIds :
               SequenceOf(rep'[w]) # SequenceOf(rep[w]) =>
                 /\ w = d
                 /\ ret'.op \in {"SetSequence", "SetContents", "Clear"}]_vars

C7_Witness ==
  /\ ret.op = "Append"
  /\ SequenceOf(rep["dst"]) = U64Of(255)
  /\ SequenceOf(rep["src"]) = U64Zero
  /\ CountOf(rep["dst"]) >= 2
  /\ CountOf(rep["src"]) >= 1

\* C8: from any batch state clear() leaves exactly 12 zero bytes (sequence
\* 0, count 0, no records), and a second clear() changes nothing.
C8_ClearFixpoint ==
  [][ret'.op = "Clear" =>
       LET b == rep'[ret'.w]
           again == IF mv THEN WriteBatchMVClear(b) ELSE WriteBatchClear(b)
       IN  /\ b = <<0, 0, 0, 0, 0, 0, 0, 0, 0, 0, 0, 0>>
           /\ SequenceOf(b) = U64Zero
           /\ CountOf(b) = 0
           /\ again = b]_vars

C8_Witness ==
  /\ mv
  /\ ret.op = "Clear"
  /\ Len(rep[ret.w]) = kHeader
  /\ SequenceOf(rep[ret.w]) = U64Zero

\* C9 as stated: the comparator is a total order in both modes:
\* compare(a, b) < 0 iff compare(b, a) > 0, and compare(a, a) = 0.
C9_TotalOrder ==
  r.op = "Compare" =>
    /\ (r.value < 0) <=> (Compare(bkey, akey) > 0)
    /\ Compare(akey, akey) = 0

\* C10 as stated: in MV mode, for keys with equal user key and equal packed
\* (sequence, type) trailer, vt(a) > vt(b) implies compare(a, b) < 0.
C10_ValidTimeTieBreak ==
  (/\ r.op = "Compare"
   /\ multi_version
   /\ MVExtractUserKey(akey) = MVExtractUserKey(bkey)
   /\ DecodeFixed64(akey, Len(akey) - 16) = DecodeFixed64(bkey, Len(bkey) - 16)
   /\ Less64(DecodeFixed64(bkey, Len(bkey) - 8),
             DecodeFixed64(akey, Len(akey) - 8))) =>
    r.value < 0

\* the fields of an internal key of the comparator's mode, read from its bytes
TrailerLen == IF multi_version THEN 16 ELSE 8
UserKeyOf(k) == SubSeq(k, 1, Len(k) - TrailerLen)
PackedOf(k) == DecodeFixed64(k, Len(k) - TrailerLen)
SeqOf(k) == <<0>> \o SubSeq(PackedOf(k), 1, 7)
TypeOf(k) == PackedOf(k)[8]

\* C11: newer-first for equal user key: in both modes, for internal keys a
\* and b with equal user key, seq(a) > seq(b) implies compare(a, b) < 0,
\* whatever their types and valid times.
C11_NewerFirst ==
  (/\ r.op = "Compare"
   /\ UserKeyOf(akey) = UserKeyOf(bkey)
   /\ Less64(SeqOf(bkey), SeqOf(akey))) =>
    r.value < 0

\* a multi-version comparison of a newer key that has the smaller type and
\* the smaller valid time
C11_Witness ==
  /\ r.op = "Compare"
  /\ multi_version
  /\ UserKeyOf(akey) = UserKeyOf(bkey)
  /\ Less64(SeqOf(bkey), SeqOf(akey))
  /\ TypeOf(akey) < TypeOf(bkey)
  /\ Less64(DecodeFixed64(akey, Len(akey) - 8),
            DecodeFixed64(bkey, Len(bkey) - 8))
  /\ r.value < 0

\* C12: order by user key: in both modes, user_cmp(u(a), u(b)) < 0 implies
\* compare(a, b) < 0, independent of sequence, type and valid time, where
\* u(k) is k without its 8-byte (SV) or 16-byte (MV) trailer.
C12_UserKeyOrder ==
  (/\ r.op = "Compare"
   /\ UserCompare(UserKeyOf(akey), UserKeyOf(bkey)) < 0) =>
    r.value < 0

\* a comparison of a key with the smaller user key and the older sequence
C12_Witness ==
  /\ r.op = "Compare"
  /\ UserCompare(UserKeyOf(akey), UserKeyOf(bkey)) < 0
  /\ Less64(SeqOf(akey), SeqOf(bkey))
  /\ UserKeyOf(akey) # <<>>
  /\ r.value < 0

\* the trailer that sorts first for its user key
SeekTrailer ==
  <<255, 255, 255, 255, 255, 255, 255, 1>>
TrailerOf(k) == SubSeq(k, Len(k) - TrailerLen + 1, Len(k))
EarliestTrailer ==
  IF multi_version
    THEN Reverse(SeekTrailer) \o <<0, 0, 0, 0, 0, 0, 0, 0>>
    ELSE Reverse(SeekTrailer)

\* C13: separator sandwich: in both modes, when compare(start, limit) < 0
\* and the user comparator obeys its shortening contract, after
\* find_shortest_separator(&start, limit) compare(old_start, new_start) <= 0
\* and compare(new_start, limit) < 0; a rewritten start ends with
\* pack(kMaxSequenceNumber, kValueTypeForSeek) (then kMinValidTime in MV) and
\* both assertions hold; otherwise start is unchanged.
C13_SeparatorSandwich ==
  (/\ r.op = "FindShortestSeparator"
   /\ Compare(r.start, bkey) < 0) =>
    /\ Compare(r.start, akey) <= 0
    /\ Compare(akey, bkey) < 0
    /\ r.asserted
    /\ r.rewritten => TrailerOf(akey) = EarliestTrailer
    /\ ~r.rewritten => akey = r.start

\* a multi-version start key that was rewritten to a shorter user key
C13_Witness ==
  /\ r.op = "FindShortestSeparator"
  /\ multi_version
  /\ Compare(r.start, bkey) < 0
  /\ r.rewritten
  /\ akey # r.start
  /\ Len(UserKeyOf(akey)) < Len(UserKeyOf(r.start))
  /\ Compare(akey, bkey) < 0

\* C14 as stated: find_short_successor works on the user key in both modes:
\* the user comparator is asked for the successor of the key without its
\* 8-byte (SV) or 16-byte (MV) trailer, the key is rewritten only when that
\* successor is strictly shorter than and strictly greater than the user
\* key, the rewritten key is the successor followed by
\* pack(kMaxSequenceNumber, kValueTypeForSeek) (and kMinValidTime in MV), and
\* otherwise the key is unchanged.
C14_SuccessorOnUserKey ==
  r.op = "FindShortSuccessor" =>
    /\ r.user_key = UserKeyOf(r.key)
    /\ r.rewritten <=> /\ Len(r.successor) < Len(UserKeyOf(r.key))
                       /\ UserCompare(UserKeyOf(r.key), r.successor) < 0
    /\ r.rewritten => akey = r.successor \o EarliestTrailer
    /\ ~r.rewritten => akey = r.key

\* C15 as stated: the filter-policy adapter shows the user filter only user
\* keys: create_filter passes the user policy exactly the user-key prefix of
\* every input internal key, key_may_match passes it the user key of the
\* probed key, and so key_may_match is true for every internal key whose
\* user key equals the user key of a key given to create_filter, whatever
\* its sequence, type and valid time, for SV and MV internal keys alike.
C15_FilterSeesUserKeys ==
  /\ r.op = "CreateFilter" =>
       /\ keys = [i \in 1..Len(r.given) |-> UserKeyOf(r.given[i])]
       /\ filter = {UserKeyOf(r.given[i]) : i \in 1..Len(r.given)}
  /\ r.op = "KeyMayMatch" =>
       /\ r.user_key = UserKeyOf(r.key)
       /\ (\E i \in 1..Len(r.given) :
             UserKeyOf(r.given[i]) = UserKeyOf(r.key)) => r.value

\* the 8 bytes of x, least significant first
LittleEndian(x) == <<x[8], x[7], x[6], x[5], x[4], x[3], x[2], x[1]>>
\* the number whose little-endian bytes are b[from + 1 .. from + 8]
FromLittleEndian(b, from) == [i \in 1..8 |-> b[from + 9 - i]]
\* unpack(x) = (x >> 8, x & 0xFF)
Unpack(x) == [sequence |-> <<0, x[1], x[2], x[3], x[4], x[5], x[6], x[7]>>,
              type |-> x[8]]
\* (seq << 8) | tag for seq <= 2^56 - 1
ShiftedOr(seq, tag) ==
  <<seq[2], seq[3], seq[4], seq[5], seq[6], seq[7], seq[8], tag>>

\* C16: internal-key encode/decode round trip: for every user key,
\* seq <= 2^56 - 1 and tag in {0, 1} (and every valid time in MV) the bytes
\* appended are user_key, then the little-endian (seq << 8) | tag, then in MV
\* the little-endian valid time; unpacking them returns the same fields; and
\* the bytes already in the buffer stay in front, unchanged.
C16_KeyRoundTrip ==
  r.op \in {"AppendInternalKey", "AppendMVInternalKey"} =>
    LET old == Len(r.result)
        ulen == Len(r.key.user_key)
        isMV == r.op = "AppendMVInternalKey"
        added == SubSeq(akey, old + 1, Len(akey))
        unpacked == Unpack(FromLittleEndian(akey, old + ulen))
    IN  /\ SubSeq(akey, 1, old) = r.result
        /\ Len(akey) = old + ulen + (IF isMV THEN 16 ELSE 8)
        /\ added = r.key.user_key
                     \o LittleEndian(ShiftedOr(r.key.sequence, r.key.type))
                     \o (IF isMV THEN LittleEndian(r.key.valid_time)
                                 ELSE <<>>)
        /\ SubSeq(akey, old + 1, old + ulen) = r.key.user_key
        /\ unpacked.sequence = r.key.sequence
        /\ unpacked.type = r.key.type
        /\ isMV => FromLittleEndian(akey, old + ulen + 8) = r.key.valid_time

\* an MV key with the largest sequence and a valid time above 2^32, appended
\* to a buffer that already held bytes
C16_Witness ==
  /\ r.op = "AppendMVInternalKey"
  /\ r.result # <<>>
  /\ r.key.user_key # <<>>
  /\ r.key.sequence = <<0, 255, 255, 255, 255, 255, 255, 255>>
  /\ r.key.type = 1
  /\ r.key.valid_time[1] = 255
  /\ Len(akey) = Len(r.result) + Len(r.key.user_key) + 16

\* what the constructed lookup key is compared to
IsMVLookup == r.op = "MVLookupKey"
LookupDelta == IF IsMVLookup THEN 16 ELSE 8
\* L = len(user_key) + 8 (SV) or + 16 (MV)
LookupL == Add64(r.user_key.size, LookupDelta)
FitsIn32(x) == x[1] = 0 /\ x[2] = 0 /\ x[3] = 0 /\ x[4] = 0
LookupTrailer ==
  LittleEndian(ShiftedOr(r.s, 1))
    \o (IF IsMVLookup THEN LittleEndian(r.t) ELSE <<>>)

\* C17 as stated: lookup-key layout: for every user key and sequence (and
\* valid time in MV) the buffer is varint32(L), user_key,
\* pack(seq, kValueTypeForSeek) and, in MV, the valid time, where
\* L = len(user_key) + 8 (SV) or + 16 (MV) is exactly the length of the
\* internal_key view (end - kstart), and the memtable_key view is the whole
\* buffer starting at the varint.
C17_LookupLayout ==
  r.op \in {"LookupKey", "MVLookupKey"} =>
    /\ FitsIn32(LookupL)
    /\ lkey.buf[1] = EncodeVarint32Of(LookupL)
    /\ r.user_key.size = U64Of(Len(r.user_key.data)) =>
         lkey.buf[1] = EncodeVarint32(Len(r.user_key.data) + LookupDelta)
    /\ lkey.buf[2] = r.user_key.data
    /\ SubSeq(lkey.buf, 3, Len(lkey.buf)) =
         IF IsMVLookup
           THEN <<LittleEndian(ShiftedOr(r.s, 1)), LittleEndian(r.t)>>
           ELSE <<LittleEndian(ShiftedOr(r.s, 1))>>
    /\ lkey.kstart_ = U64Of(Len(lkey.buf[1]))
    /\ lkey.end_ = Add64(LookupL, Len(lkey.buf[1]))
    /\ lkey.start_ = U64Zero

\* C19: lookup-key buffer safety: for every user key length representable in
\* 32 bits the bytes written (varint + user key + 8-byte trailer, + 8-byte
\* valid time in MV) never exceed the size needed of the buffer selected
\* (length + 13 in SV, length + 21 in MV), and the inline buffer is selected
\* only when needed fits in its capacity.
C19_LookupBufferSafety ==
  (/\ r.op \in {"LookupKey", "MVLookupKey"}
   /\ FitsIn32(r.user_key.size)) =>
    LET written == Add64(r.user_key.size, Len(lkey.buf[1]) + LookupDelta)
    IN  /\ lkey.needed = Add64(r.user_key.size, LookupDelta + 5)
        /\ Len(lkey.buf[1]) \in 1..5
        /\ lkey.end_ = written
        /\ ~Less64(lkey.needed, written)
        /\ lkey.inline => ~Less64(U64Of(kSpaceSize), lkey.needed)

\* an MV lookup key of a 2^32 - 17 byte user key: a five-byte varint and
\* exactly needed bytes written to a heap buffer
C19_Witness ==
  /\ r.op = "MVLookupKey"
  /\ r.user_key.size = <<0, 0, 0, 0, 255, 255, 255, 239>>
  /\ Len(lkey.buf[1]) = 5
  /\ lkey.end_ = lkey.needed
  /\ ~lkey.inline

\* p is exactly the encodings of the records the handler calls carry, in order
EncodesCalls(p, calls) ==
  EncodesAdds(p, [i \in 1..Len(calls) |-> ExpectedAdd(calls[i], U64Zero)], 1)

\* the message of the Corruption that a record starting with tag earns
BadRecordMsg(tag) ==
  LET cls == IF mv THEN "WriteBatchMV" ELSE "WriteBatch"
  IN  IF tag = kTypeValue THEN "bad " \o cls \o " Put"
      ELSE IF tag = kTypeDeletion THEN "bad " \o cls \o " Delete"
      ELSE "unknown " \o cls \o " tag"

\* C18: iteration stops at the first malformed record: when iterate returns
\* Corruption for a bad Put, a bad Delete or an unknown tag, the handler was
\* called exactly for the well-formed records before the malformed one, in
\* order, and for none after it; when only the header count is wrong, every
\* record was dispatched before Corruption is returned.
C18_StopsAtFirstMalformed ==
  (ret.op = "Iterate" /\ ret.status.code = "Corruption") =>
    LET b == rep[ret.w]
        p == Payload(b)
        cls == IF mv THEN "WriteBatchMV" ELSE "WriteBatch"
    IN  IF ret.status.msg = cls \o " has wrong count"
          THEN /\ EncodesCalls(p, ret.calls)
               /\ Len(ret.calls) # CountOf(b)
          ELSE \E n \in 0..(Len(p) - 1) :
                 LET rest == SubSeq(p, n + 1, Len(p))
                 IN  /\ EncodesCalls(SubSeq(p, 1, n), ret.calls)
                     /\ ~StartsWithRecord(rest)
                     /\ ret.status.msg = BadRecordMsg(rest[1])

\* a multi-version batch whose second record is cut short: one call made,
\* then Corruption
C18_Witness ==
  /\ mv
  /\ ret.op = "Iterate"
  /\ ret.status.code = "Corruption"
  /\ ret.status.msg = "bad WriteBatchMV Delete"
  /\ Len(ret.calls) = 1
  /\ Len(Payload(rep[ret.w])) > 10

====
